---- MODULE Spec2Model ----
(***************************************************************************)
(* Wheel Deals: the spin-issuance and redemption protocol of lib/spins.ts  *)
(* over a Firestore document store.                                        *)
(*                                                                         *)
(* createSpin runs its body in runTransaction of the Firestore web SDK:    *)
(* an optimistic transaction.  tx.get records the version of the document  *)
(* it read, writes are staged, and the commit applies all staged writes    *)
(* atomically provided the document read has not been written since; else  *)
(* the body is run again, for at most MaxAttempts attempts.  A throw in the *)
(* body drops the staged writes.                                           *)
(*                                                                         *)
(* redeemSpinByCode is a query (getDocs) followed by an unconditional      *)
(* updateDoc, two separate round trips to the store.                       *)
(***************************************************************************)
EXTENDS Integers, Sequences, FiniteSets, TLC

\* ---------------------------------------------------------------- bounds
NumSpinCalls == 2
NumIssued == 1
NumRedeemCalls == 2
NumConcurrent == 6
MaxLimit == 1
MaxSeqLimit == 3
MaxDay == 8
MaxItems == 2
MaxWeight == 2
NumClicks == 2

\* ------------------------------------------------------ program constants
DefaultDailyLimit == 3
ExpiryDays == 7
\* runTransaction is called without options: the SDK's default maxAttempts
MaxAttempts == 5
DayMs == 24 * 60 * 60 * 1000
\* the upper bound of clamp(weight, 0, 1e9)
WeightClamp == 1000000000

\* ------------------------------------------------------------- utilities
Min(a, b) == IF a < b THEN a ELSE b

Max(a, b) == IF a > b THEN a ELSE b

\* ------------------------------------------------ strings as char sequences
Base36Digits ==
  <<"0","1","2","3","4","5","6","7","8","9","a","b","c","d","e","f","g","h",
    "i","j","k","l","m","n","o","p","q","r","s","t","u","v","w","x","y","z">>

UpperDigits ==
  <<"0","1","2","3","4","5","6","7","8","9","A","B","C","D","E","F","G","H",
    "I","J","K","L","M","N","O","P","Q","R","S","T","U","V","W","X","Y","Z">>

WhiteSpace == {" ", "\t", "\n"}

\* String.prototype.toUpperCase, one character
UpperChar(c) ==
  IF \E i \in 11..36 : Base36Digits[i] = c
  THEN UpperDigits[CHOOSE i \in 11..36 : Base36Digits[i] = c]
  ELSE c

\* String.prototype.toUpperCase
ToUpperCase(s) == [i \in 1..Len(s) |-> UpperChar(s[i])]

\* String.prototype.slice(from, to) with 0-based, end-exclusive indices
Slice(s, from, to) == SubSeq(s, from + 1, Min(to, Len(s)))

RECURSIVE TrimStart(_)
TrimStart(s) ==
  IF s # <<>> /\ Head(s) \in WhiteSpace THEN TrimStart(Tail(s)) ELSE s

RECURSIVE TrimEnd(_)
TrimEnd(s) ==
  IF s # <<>> /\ s[Len(s)] \in WhiteSpace
  THEN TrimEnd(SubSeq(s, 1, Len(s) - 1))
  ELSE s

\* String.prototype.trim
Trim(s) == TrimEnd(TrimStart(s))

\* Number.prototype.toString(36) of a value in [0, 1), the value being given
\* by its base-36 fraction digits (no trailing zero): 0 prints as "0", any
\* other value as "0." followed by the digits.
ToString36(frac) ==
  IF frac = <<>> THEN <<"0">>
  ELSE <<"0", ".">> \o [i \in 1..Len(frac) |-> Base36Digits[frac[i] + 1]]

\* generateCode, for the value frac returned by Math.random()
generateCode(frac) == <<"W", "D", "-">> \o ToUpperCase(Slice(ToString36(frac), 2, 8))

\* -------------------------------------------------------------- time, days
\* the instants the clock takes: the start of a day
Instants == {d * DayMs : d \in 0..MaxDay}

\* two consecutive days
IssueInstants == {0, DayMs}

\* the day of issuance, the instant its spins expire, and a later day
RedeemInstants == {0, ExpiryDays * DayMs, MaxDay * DayMs}

\* todayKeyLocal: the local calendar day of instant t, as a day number
todayKeyLocal(t) == t \div DayMs

\* expiresAtInDays(days), called at instant t
expiresAtInDays(days, t) == t + days * 24 * 60 * 60 * 1000

DateKeys == {todayKeyLocal(t) : t \in Instants}

\* ------------------------------------------------------------ input sets
Users == {"u1", "u2"}
Merchants == {"m1", "m2"}
PrizeLabels == {"10% off", "Free drink"}

\* values of Math.random() as base-36 fraction digits: 0.7k2qzx, 0.abc1239
RandomDraws == {<<7, 20, 2, 26, 35, 33>>, <<10, 11, 12, 1, 2, 3, 9>>}

\* values of Math.random() with fewer than 6 base-36 fraction digits, and
\* with 6 and more: 0, 0.5 (0.i), 0.25 (0.9), 0.125 (0.4i), 0.7k2qzx, 0.abc1239
CodeDraws == {<<>>, <<18>>, <<9>>, <<4, 18>>} \cup RandomDraws

\* the dailyLimit argument: <<>> when omitted, <<n>> when given
DailyLimitArgs == {<<>>} \cup {<<n>> : n \in 0..MaxLimit}

\* the dailyLimit of concurrent calls: more than MaxAttempts - 1 commits
\* can then precede one call's commit
ConcurrentLimitArgs == {<<MaxAttempts>>}

\* the dailyLimit of consecutive calls
SeqLimitArgs == {<<>>} \cup {<<n>> : n \in 1..MaxSeqLimit}

\* strings typed into the redeem form
RedeemInputs ==
  {<<"W", "D", "-", "A", "B", "C", "1", "2", "3">>,
   <<" ", "w", "d", "-", "7", "k", "2", "q", "z", "x", " ">>}

\* strings passed to redeemSpinByCode: the empty string, white space only, a
\* code as issued, the same code in other case and with white space around
\* it, the same code with a blank inside it, and a code never issued
NormalizeInputs ==
  {<<>>,
   <<" ", "\t">>,
   <<"W", "D", "-", "7", "K", "2", "Q", "Z", "X">>,
   <<" ", "w", "d", "-", "7", "k", "2", "q", "z", "x", " ">>,
   <<"W", "d", "-", "7", "k", "2", "Q", "Z", "X", "\n">>,
   <<"W", "D", "-", " ", "7", "K", "2", "Q", "Z", "X">>,
   <<"W", "D", "-", "A", "B", "C", "1", "2", "3">>}

\* the wheelItems of WheelDealsClient
wheelItems ==
  <<[label |-> "10% OFF", weight |-> 40],
    [label |-> "15% OFF", weight |-> 25],
    [label |-> "20% OFF", weight |-> 20],
    [label |-> "BOGO", weight |-> 10],
    [label |-> "FREE UPGRADE", weight |-> 5]>>

\* the weights of a merchant's wheel array: even numbers, so that the odd
\* draws lie strictly between two cumulative weights; one negative weight
WeightValues == {-2} \cup {2 * k : k \in 0..MaxWeight}

\* a weight above the clamp
HeavyWeight == 2 * WeightClamp

\* the label of the i-th item of a wheel
LabelAt(i) == wheelItems[((i - 1) % Len(wheelItems)) + 1].label

ItemsOf(weights) == [i \in 1..Len(weights) |-> [label |-> LabelAt(i), weight |-> weights[i]]]

\* the wheel arrays of a merchant document: none or empty, any weights of
\* WeightValues, and arrays with one weight above the clamp among weights
\* >= 0 (their total stays within 32 bits)
ItemLists ==
  {ItemsOf(w) : w \in UNION {[1..n -> WeightValues] : n \in 0..MaxItems}}
  \cup {ItemsOf(w) : w \in {v \in UNION {[1..n -> {0, 2, HeavyWeight}] : n \in 1..MaxItems} :
                              Cardinality({i \in DOMAIN v : v[i] = HeavyWeight}) = 1}}

SpinCalls == 1..NumSpinCalls
IssuedCalls == 1..NumIssued
RedeemCalls == 1..NumRedeemCalls
ConcurrentCalls == 1..NumConcurrent
SeqCalls == 1..(MaxSeqLimit + 1)

\* ------------------------------------------------------------------ state
VARIABLES
  now,                \* the wall clock, in ms
  limitDocs,          \* users/{uid}/merchantLimits/{merchantId}/days/{dateKey}
  spinDocs,           \* spins/{spinId}
  merchantStats,      \* merchantStats/{merchantId}/daily/{dateKey}
  userMerchantStats,  \* userMerchantStats/{uid}_{merchantId}/daily/{dateKey}
  spinCall,           \* the createSpin calls
  redeemCall,         \* the redeemSpinByCode calls
  wheel,              \* the Wheel component: its props, state and refs
  home,               \* the Home page: the selected merchant's wheel, its state
  client,             \* the WheelDealsClient component: its state
  rateCall            \* the getRedeemRateForMerchantLast7Days call

store == <<limitDocs, spinDocs, merchantStats, userMerchantStats>>
ui == <<wheel, home, client, rateCall>>
vars == <<now, limitDocs, spinDocs, merchantStats, userMerchantStats,
          spinCall, redeemCall, wheel, home, client, rateCall>>

NoDoc == [exists |-> FALSE]

LimitKeys == Users \X Merchants \X DateKeys

\* `${uid}_${merchantId}`
UserMerchantId(uid, merchantId) == uid \o "_" \o merchantId

UserMerchantIds == {UserMerchantId(u, m) : u \in Users, m \in Merchants}

IdleSpinCall == [pc |-> "idle"]
IdleRedeemCall == [pc |-> "idle"]
IdleRateCall == [pc |-> "idle"]

\* the Wheel component as mounted with the given items
MountedWheel(items) ==
  [items |-> items,
   unlocking |-> 0,            \* calls of spin awaiting unlockAudio
   spinning |-> FALSE,         \* spinningRef.current (and the spinning state)
   pendingWinner |-> <<>>,     \* pendingWinnerRef.current: null or a label
   pendingWinnerIdx |-> <<>>,  \* pendingWinnerIdxRef.current: null or an index
   winnerText |-> "",
   winnerIdx |-> <<>>,
   draw |-> <<>>,              \* the last value of Math.random() * totalWeight
   spinReturn |-> "none"]      \* how the last call of spin went

\* the Home page with the wheel array of its selected merchant
MountedHome(items) ==
  [wheel |-> items,
   pending |-> 0,              \* calls of onSpin awaiting their timer
   spinning |-> FALSE,
   result |-> ""]

\* the WheelDealsClient component once its merchants are loaded and the
\* merchant with the given id is selected
MountedClient(merchantId) ==
  [selectedMerchantId |-> merchantId,
   savingSpin |-> FALSE,
   issuedCode |-> <<>>,        \* "" or a code
   lastPrize |-> <<>>,         \* null or a label
   spinsLeft |-> <<>>,         \* null or a number
   awaiting |-> {},            \* the createSpin calls its onResult handlers await
   alerted |-> <<>>]           \* the message of the last alert

\* the empty store, and the calls S of createSpin and R of redeemSpinByCode
\* not yet made; a spin document id is kept for each call
InitStore(S, R) ==
  /\ now = 0
  /\ limitDocs = [k \in LimitKeys |-> NoDoc]
  /\ spinDocs = [i \in S |-> NoDoc]
  /\ merchantStats = [k \in Merchants \X DateKeys |-> 0]
  /\ userMerchantStats = [k \in UserMerchantIds \X DateKeys |-> 0]
  /\ spinCall = [p \in S |-> IdleSpinCall]
  /\ redeemCall = [r \in R |-> IdleRedeemCall]
  /\ rateCall = IdleRateCall

\* the same, with the wheel of WheelDealsClient and a Home page whose
\* merchant has no wheel array
InitWith(S, R) ==
  /\ InitStore(S, R)
  /\ wheel = MountedWheel(wheelItems)
  /\ home = MountedHome(<<>>)
  /\ client = MountedClient("m1")

Init == InitWith(SpinCalls, RedeemCalls)

\* ------------------------------------------------------------- createSpin

\* params.dailyLimit ?? 3
DailyLimitOrDefault(arg) == IF arg = <<>> THEN DefaultDailyLimit ELSE arg[1]

\* the spin document ids already handed out by doc(collection(db, "spins"))
UsedSpinIds ==
  {spinCall[q].spinId : q \in {q \in DOMAIN spinCall : spinCall[q].pc # "idle"}}

\* createSpin up to the call of runTransaction: the user, the day key, the code,
\* the expiry and the spin document id are fixed here, once per call.
\* Calls are numbered in the order they are made.
StartSpin(p, uid, merchantId, prizeLabel, limitArg, frac, id) ==
  /\ spinCall[p].pc = "idle"
  /\ \A q \in DOMAIN spinCall : q < p => spinCall[q].pc # "idle"
  /\ id \notin UsedSpinIds
  /\ spinCall' = [spinCall EXCEPT ![p] =
       [pc |-> "get",
        uid |-> uid,
        merchantId |-> merchantId,
        prizeLabel |-> prizeLabel,
        dailyLimit |-> DailyLimitOrDefault(limitArg),
        dateKey |-> todayKeyLocal(now),
        code |-> generateCode(frac),
        expiresAt |-> expiresAtInDays(ExpiryDays, now),
        spinId |-> id,
        attemptsRemaining |-> MaxAttempts - 1,
        limitSnap |-> NoDoc,
        remaining |-> 0,
        result |-> [state |-> "pending"]]]

\* a call of createSpin made on its own
CreateSpin(p, uid, merchantId, prizeLabel, limitArg, frac, id) ==
  /\ StartSpin(p, uid, merchantId, prizeLabel, limitArg, frac, id)
  /\ UNCHANGED <<now, store, redeemCall, ui>>

\* mutant: one limit document per merchant and day, shared by the users
limitRef_AnyUser(c) == <<"u1", c.merchantId, c.dateKey>>

limitRef(c) == <<c.uid, c.merchantId, c.dateKey>>

merchantDailyRef(c) == <<c.merchantId, c.dateKey>>

\* mutant: the user+merchant aggregate is keyed by the merchant alone
userMerchantDailyRef_AnyUser(c) == <<UserMerchantId("u1", c.merchantId), c.dateKey>>

userMerchantDailyRef(c) == <<UserMerchantId(c.uid, c.merchantId), c.dateKey>>

\* mutant: the stored remaining is ignored, every call starts from dailyLimit
RemainingOf_Fresh(limitSnap, dailyLimit) == dailyLimit

\* mutant: a dailyLimit above the stored remaining raises it
RemainingOf_Raised(limitSnap, dailyLimit) ==
  IF ~limitSnap.exists THEN dailyLimit ELSE Max(limitSnap.remaining, dailyLimit)

\* the remaining the transaction body works with, from the snapshot it read
RemainingOf(limitSnap, dailyLimit) ==
  IF ~limitSnap.exists THEN dailyLimit ELSE limitSnap.remaining

\* mutant: the limit is taken as reached only below 0
LimitReached_Below0(remaining) == remaining < 0

\* if (remaining <= 0) throw
LimitReached(remaining) == remaining <= 0

QuotaError == [state |-> "rejected", error |-> "Daily limit reached for this merchant."]

\* the call has returned (resolved or rejected): its arguments and its
\* result are kept, the locals of the transaction are gone
Returned(c, result) ==
  [c EXCEPT !.pc = "done", !.attemptsRemaining = 0, !.limitSnap = NoDoc,
            !.remaining = 0, !.result = result]

\* mutant: the tx.set of a missing limit document is written at once, not
\* staged, so it outlives the throw
TxGet_SetAtOnce(p) ==
  /\ spinCall[p].pc = "get"
  /\ LET c == spinCall[p]
         limitSnap == limitDocs[limitRef(c)]
         remaining == RemainingOf(limitSnap, c.dailyLimit)
     IN  /\ spinCall' = [spinCall EXCEPT ![p] =
              IF LimitReached(remaining)
              THEN Returned(c, QuotaError)
              ELSE [c EXCEPT !.pc = "commit", !.limitSnap = limitSnap,
                             !.remaining = remaining]]
         /\ limitDocs' =
              IF limitSnap.exists THEN limitDocs
              ELSE [limitDocs EXCEPT ![limitRef(c)] =
                      [exists |-> TRUE, merchantId |-> c.merchantId,
                       dateKey |-> c.dateKey, remaining |-> c.dailyLimit,
                       version |-> 1]]
  /\ UNCHANGED <<now, spinDocs, merchantStats, userMerchantStats, redeemCall, ui>>

\* tx.get(limitRef) resolves and the body runs to its end: it throws when the
\* limit is reached (the staged tx.set is dropped with the transaction), else
\* its writes are staged and the commit is sent.
TxGet(p) ==
  /\ spinCall[p].pc = "get"
  /\ LET c == spinCall[p]
         limitSnap == limitDocs[limitRef(c)]
         remaining == RemainingOf(limitSnap, c.dailyLimit)
     IN  spinCall' = [spinCall EXCEPT ![p] =
           IF LimitReached(remaining)
           THEN Returned(c, QuotaError)
           ELSE [c EXCEPT !.pc = "commit", !.limitSnap = limitSnap,
                          !.remaining = remaining]]
  /\ UNCHANGED <<now, store, redeemCall, ui>>

\* mutant: the commit is applied whatever was written since the read
PreconditionHolds_Always(limitSnap, current) == TRUE

\* the precondition the SDK attaches to the first write of a document the
\* transaction read: exists = false for a missing document, its update time
\* (version) otherwise
PreconditionHolds(limitSnap, current) ==
  IF limitSnap.exists
  THEN current.exists /\ current.version = limitSnap.version
  ELSE ~current.exists

\* mutant: the commit adds a spin to remaining
CommittedLimit_Refill(c, current) ==
  [exists |-> TRUE, merchantId |-> c.merchantId, dateKey |-> c.dateKey,
   remaining |-> c.remaining + 1,
   version |-> (IF current.exists THEN current.version ELSE 0) + 1]

\* the limit document after the commit: tx.set (when it was missing) and
\* tx.update, applied in order, stamped with the commit's version
CommittedLimit(c, current) ==
  [exists |-> TRUE,
   merchantId |-> c.merchantId,
   dateKey |-> c.dateKey,
   remaining |-> c.remaining - 1,
   version |-> (IF current.exists THEN current.version ELSE 0) + 1]

\* tx.set(spinRef, ...): createdAt is the server's time of the commit
IssuedSpin(c, t) ==
  [exists |-> TRUE,
   uid |-> c.uid,
   merchantId |-> c.merchantId,
   prizeLabel |-> c.prizeLabel,
   code |-> c.code,
   status |-> "issued",
   dateKey |-> c.dateKey,
   createdAt |-> t,
   expiresAt |-> c.expiresAt,
   redeemedAt |-> <<>>]

\* mutant: spinsCount is written as 1 instead of incremented
Increment_Overwrite(stats, ref) == [stats EXCEPT ![ref] = 1]

\* spinsCount: increment(1) with merge: a missing document counts from 0
Increment(stats, ref) == [stats EXCEPT ![ref] = @ + 1]

\* mutant: the aggregates are not part of the commit
CommitWrites_NoAggregates(p) ==
  LET c == spinCall[p] IN
  /\ limitDocs' = [limitDocs EXCEPT ![limitRef(c)] = CommittedLimit(c, @)]
  /\ spinDocs' = [spinDocs EXCEPT ![c.spinId] = IssuedSpin(c, now)]
  /\ UNCHANGED <<merchantStats, userMerchantStats>>

\* the staged writes, applied as one atomic commit
CommitWrites(p) ==
  LET c == spinCall[p] IN
  /\ limitDocs' = [limitDocs EXCEPT ![limitRef(c)] = CommittedLimit(c, @)]
  /\ spinDocs' = [spinDocs EXCEPT ![c.spinId] = IssuedSpin(c, now)]
  /\ merchantStats' = Increment(merchantStats, merchantDailyRef(c))
  /\ userMerchantStats' = Increment(userMerchantStats, userMerchantDailyRef(c))

OkResult(c) ==
  [state |-> "resolved", id |-> c.spinId, code |-> c.code,
   remainingAfter |-> c.remaining - 1, expiresAt |-> c.expiresAt]

\* mutant: the writes of an attempt are applied although its commit is
\* refused, and the body is run again
TxCommit_WritesOnRetry(p) ==
  /\ spinCall[p].pc = "commit"
  /\ LET c == spinCall[p] IN
     /\ CommitWrites(p)
     /\ spinCall' = [spinCall EXCEPT ![p] =
          IF PreconditionHolds(c.limitSnap, limitDocs[limitRef(c)])
          THEN Returned(c, OkResult(c))
          ELSE IF c.attemptsRemaining > 0
          THEN [c EXCEPT !.pc = "get",
                         !.attemptsRemaining = c.attemptsRemaining - 1]
          ELSE Returned(c, [state |-> "rejected",
                            error |-> "failed-precondition"])]
  /\ UNCHANGED <<now, redeemCall, ui>>

\* the commit reaches the store: it is applied if the limit document is as
\* it was read; else the SDK runs the body again while attempts remain, and
\* rejects with the commit's error after the last one
TxCommit(p) ==
  /\ spinCall[p].pc = "commit"
  /\ LET c == spinCall[p] IN
     IF PreconditionHolds(c.limitSnap, limitDocs[limitRef(c)])
     THEN /\ CommitWrites(p)
          /\ spinCall' = [spinCall EXCEPT ![p] = Returned(c, OkResult(c))]
     ELSE /\ spinCall' = [spinCall EXCEPT ![p] =
               IF c.attemptsRemaining > 0
               THEN [c EXCEPT !.pc = "get",
                              !.attemptsRemaining = c.attemptsRemaining - 1]
               ELSE Returned(c, [state |-> "rejected",
                                 error |-> "failed-precondition"])]
          /\ UNCHANGED store
  /\ UNCHANGED <<now, redeemCall, ui>>

\* a round trip of the transaction fails with an error the SDK does not
\* retry (the security rules deny it): nothing is written
TxFault(p) ==
  /\ spinCall[p].pc \in {"get", "commit"}
  /\ spinCall' = [spinCall EXCEPT ![p] =
       Returned(@, [state |-> "rejected", error |-> "permission-denied"])]
  /\ UNCHANGED <<now, store, redeemCall, ui>>

\* ------------------------------------------------------- redeemSpinByCode

\* mutant: the code is put in upper case but not trimmed
Cleaned_NoTrim(code) == ToUpperCase(code)

\* const cleaned = (code || "").trim().toUpperCase()
Cleaned(code) == ToUpperCase(Trim(code))

RedeemSpinByCode(r, code) ==
  /\ redeemCall[r].pc = "idle"
  /\ \A q \in DOMAIN redeemCall : q < r => redeemCall[q].pc # "idle"
  /\ redeemCall' = [redeemCall EXCEPT ![r] =
       [pc |-> "query", code |-> code, cleaned |-> Cleaned(code),
        docId |-> 0, data |-> NoDoc, checkedAt |-> 0, result |-> [state |-> "pending"]]]
  /\ UNCHANGED <<now, store, spinCall, ui>>

\* mutant: the query has no where clause, any spin document matches
Matching_Any(cleaned) == {i \in DOMAIN spinDocs : spinDocs[i].exists}

\* where("code", "==", cleaned)
Matching(cleaned) ==
  {i \in DOMAIN spinDocs : spinDocs[i].exists /\ spinDocs[i].code = cleaned}

\* limit(1): the first match in document id order
FirstMatch(cleaned) == CHOOSE i \in Matching(cleaned) : \A j \in Matching(cleaned) : i <= j

\* mutant: the comparison is inverted
IsExpired_Inverted(expMs, t) == expMs # 0 /\ t < expMs

\* mutant: the expiry is not checked
IsExpired_Never(expMs, t) == FALSE

\* mutant: a code is expired from the instant of its expiry on
IsExpired_AtExpiry(expMs, t) == expMs # 0 /\ t >= expMs

\* expMs && Date.now() > expMs
IsExpired(expMs, t) == expMs # 0 /\ t > expMs

Refused(reason) == [state |-> "resolved", ok |-> FALSE, reason |-> reason]

\* mutant: the expiry is checked before the status
RedeemQuery_ExpiryFirst(r) ==
  /\ redeemCall[r].pc = "query"
  /\ LET c == redeemCall[r] IN
     redeemCall' = [redeemCall EXCEPT ![r] =
       IF Matching(c.cleaned) = {}
       THEN [c EXCEPT !.pc = "done", !.result = Refused("not_found")]
       ELSE LET id == FirstMatch(c.cleaned)
                data == spinDocs[id]
            IN  IF IsExpired(data.expiresAt, now)
                THEN [c EXCEPT !.pc = "done", !.docId = id, !.data = data,
                               !.checkedAt = now, !.result = Refused("expired")]
                ELSE IF data.status = "redeemed"
                THEN [c EXCEPT !.pc = "done", !.docId = id, !.data = data,
                               !.result = Refused("already_redeemed")]
                ELSE [c EXCEPT !.pc = "update", !.docId = id, !.data = data,
                               !.checkedAt = now]]
  /\ UNCHANGED <<now, store, spinCall, ui>>

\* getDocs resolves; the checks up to the call of updateDoc
RedeemQuery(r) ==
  /\ redeemCall[r].pc = "query"
  /\ LET c == redeemCall[r] IN
     redeemCall' = [redeemCall EXCEPT ![r] =
       IF Matching(c.cleaned) = {}
       THEN [c EXCEPT !.pc = "done", !.result = Refused("not_found")]
       ELSE LET id == FirstMatch(c.cleaned)
                data == spinDocs[id]
            IN  IF data.status = "redeemed"
                THEN [c EXCEPT !.pc = "done", !.docId = id, !.data = data,
                               !.result = Refused("already_redeemed")]
                ELSE IF IsExpired(data.expiresAt, now)
                THEN [c EXCEPT !.pc = "done", !.docId = id, !.data = data,
                               !.checkedAt = now, !.result = Refused("expired")]
                ELSE [c EXCEPT !.pc = "update", !.docId = id, !.data = data,
                               !.checkedAt = now]]
  /\ UNCHANGED <<now, store, spinCall, ui>>

\* mutant: the update also rewrites the expiry
Redeemed_Rewritten(doc, t) ==
  [doc EXCEPT !.status = "redeemed", !.redeemedAt = <<t>>, !.expiresAt = t]

\* updateDoc(doc(db, "spins", d.id), {status, redeemedAt}) is applied
Redeemed(doc, t) == [doc EXCEPT !.status = "redeemed", !.redeemedAt = <<t>>]

RedeemUpdate(r) ==
  /\ redeemCall[r].pc = "update"
  /\ LET c == redeemCall[r] IN
     /\ spinDocs' = [spinDocs EXCEPT ![c.docId] = Redeemed(@, now)]
     /\ redeemCall' = [redeemCall EXCEPT ![r] =
          [c EXCEPT !.pc = "done",
                    !.result = [state |-> "resolved", ok |-> TRUE,
                                prizeLabel |-> c.data.prizeLabel,
                                merchantId |-> c.data.merchantId]]]
  /\ UNCHANGED <<now, limitDocs, merchantStats, userMerchantStats, spinCall, ui>>

\* ------------------------------------------------------------------ clock
\* time passes, to a later one of the instants T
Tick(T) ==
  /\ \E t \in T : t > now /\ now' = t
  /\ UNCHANGED <<store, spinCall, redeemCall, ui>>

\* ------------------------------------------------------ the prize selectors
clamp(n, min, max) == Max(min, Min(max, n))

\* items.reduce((sum, it) => sum + (Number(it.weight) || 0), 0), the weights
\* being numbers
RECURSIVE totalWeight(_)
totalWeight(items) ==
  IF items = <<>> THEN 0
  ELSE totalWeight(SubSeq(items, 1, Len(items) - 1)) + items[Len(items)].weight

\* the slices of the wheel, without their angles
slices(items) ==
  IF Len(items) = 0 \/ totalWeight(items) <= 0 THEN <<>>
  ELSE [i \in 1..Len(items) |->
          [idx |-> i - 1, label |-> items[i].label,
           weight |-> clamp(items[i].weight, 0, WeightClamp)]]

\* the loop of pickWeightedIndex from index i (0-based) with acc
RECURSIVE PickFrom(_, _, _, _)
PickFrom(items, r, i, acc) ==
  IF i >= Len(items) THEN Max(0, Len(items) - 1)
  ELSE LET acc1 == acc + clamp(items[i + 1].weight, 0, WeightClamp)
       IN  IF r < acc1 THEN i ELSE PickFrom(items, r, i + 1, acc1)

\* pickWeightedIndex of Wheel, for r = Math.random() * totalWeight
pickWeightedIndex(items, r) == PickFrom(items, r, 0, 0)

\* the loop of pickWeighted from the i-th item (1-based) with r
RECURSIVE WalkFrom(_, _, _)
WalkFrom(items, r, i) ==
  IF i > Len(items) THEN items[Len(items)]
  ELSE LET r1 == r - items[i].weight
       IN  IF r1 <= 0 THEN items[i] ELSE WalkFrom(items, r1, i + 1)

\* pickWeighted of the Home page, for r = Math.random() * total
pickWeighted(items, r) == WalkFrom(items, r, 1)

\* the sums of the first n weights, as they are and clamped
PrefixSums(items) ==
  {totalWeight(SubSeq(items, 1, n)) : n \in 0..Len(items)}
  \cup {totalWeight([i \in 1..n |-> [weight |-> clamp(items[i].weight, 0, WeightClamp)]]) :
          n \in 0..Len(items)}

\* values of Math.random() * total: the values at and next to the prefix
\* sums, within [0, total) (within (total, 0] for a total <= 0)
Draws(items) ==
  LET total == totalWeight(items)
  IN  {r \in UNION {{c - 1, c, c + 1} : c \in PrefixSums(items)} :
         IF total > 0 THEN 0 <= r /\ r < total
         ELSE (total < r \/ total = 0) /\ r <= 0 /\ total <= r}

\* spin of Wheel up to its await: the two early returns (the SPIN button
\* is disabled in the same cases), else unlockAudio is awaited
WheelSpin ==
  /\ wheel.unlocking < NumClicks
  /\ wheel' =
       IF wheel.spinning \/ Len(slices(wheel.items)) = 0
       THEN [wheel EXCEPT !.spinReturn = "ignored"]
       ELSE [wheel EXCEPT !.unlocking = @ + 1]
  /\ UNCHANGED <<now, store, spinCall, redeemCall, home, client, rateCall>>

\* spin of Wheel after its await: the winner is drawn and the wheel turns
WheelSpinResume ==
  /\ wheel.unlocking > 0
  /\ \E r \in Draws(wheel.items) :
       LET winnerIndex == pickWeightedIndex(wheel.items, r)
           winner == slices(wheel.items)[winnerIndex + 1]
       IN  wheel' = [wheel EXCEPT !.unlocking = @ - 1,
                                  !.winnerText = "",
                                  !.winnerIdx = <<>>,
                                  !.spinning = TRUE,
                                  !.pendingWinner = <<winner.label>>,
                                  !.pendingWinnerIdx = <<winnerIndex>>,
                                  !.draw = <<r>>,
                                  !.spinReturn = "started"]
  /\ UNCHANGED <<now, store, spinCall, redeemCall, home, client, rateCall>>

\* onSpinEnd of Wheel, at the end of the turn; onResult is the Home page's
\* setResult
WheelOnSpinEnd ==
  /\ wheel.spinning
  /\ LET res == wheel.pendingWinner
         idx == wheel.pendingWinnerIdx
     IN  /\ wheel' = [wheel EXCEPT
                !.spinning = FALSE,
                !.pendingWinner = <<>>,
                !.pendingWinnerIdx = <<>>,
                !.winnerText = IF res # <<>> THEN "You won: " \o res[1] ELSE @,
                !.winnerIdx = IF res # <<>> THEN idx ELSE @]
         /\ home' = IF res # <<>> THEN [home EXCEPT !.result = res[1]] ELSE home
  /\ UNCHANGED <<now, store, spinCall, redeemCall, client, rateCall>>

\* onSpin of the Home page up to its await (a merchant being selected)
HomeOnSpin ==
  /\ home.pending < NumClicks
  /\ home' =
       IF Len(home.wheel) = 0
       THEN [home EXCEPT !.result = "No wheel items found for this merchant yet."]
       ELSE [home EXCEPT !.spinning = TRUE, !.result = "", !.pending = @ + 1]
  /\ UNCHANGED <<now, store, spinCall, redeemCall, wheel, client, rateCall>>

\* onSpin of the Home page after its await
HomeOnSpinResume ==
  /\ home.pending > 0
  /\ \E r \in Draws(home.wheel) :
       LET win == pickWeighted(home.wheel, r)
       IN  home' = [home EXCEPT !.pending = @ - 1,
                                !.result = "You won: " \o win.label,
                                !.spinning = FALSE]
  /\ UNCHANGED <<now, store, spinCall, redeemCall, wheel, client, rateCall>>

\* onClick of the Home page's Spin button, enabled while not spinning
HomeButtonClick ==
  /\ ~home.spinning
  /\ home' =
       IF Len(home.wheel) = 0
       THEN [home EXCEPT !.result = "No wheel items found for this merchant yet."]
       ELSE [home EXCEPT !.result = "", !.spinning = TRUE]
  /\ UNCHANGED <<now, store, spinCall, redeemCall, wheel, client, rateCall>>

\* ------------------------------------------------------- WheelDealsClient
\* onChange of the merchant select
ClientSelectMerchant(m) ==
  /\ m # client.selectedMerchantId
  /\ client' = [client EXCEPT !.selectedMerchantId = m,
                              !.issuedCode = <<>>,
                              !.spinsLeft = <<>>,
                              !.lastPrize = <<>>]
  /\ UNCHANGED <<now, store, spinCall, redeemCall, wheel, home, rateCall>>

\* the onResult handler given to Wheel, up to its await: createSpin is
\* called for the merchant selected now, with dailyLimit 3
ClientOnResult(p, label, frac) ==
  /\ StartSpin(p, "u1", client.selectedMerchantId, label, <<3>>, frac, p)
  /\ client' = [client EXCEPT !.lastPrize = <<label>>,
                              !.savingSpin = TRUE,
                              !.issuedCode = <<>>,
                              !.spinsLeft = <<>>,
                              !.awaiting = @ \cup {p}]
  /\ UNCHANGED <<now, store, redeemCall, wheel, home, rateCall>>

\* the onResult handler after its await: the code and the remaining spins
\* are shown, or the error is alerted
ClientSpinSettled(p) ==
  /\ p \in client.awaiting
  /\ spinCall[p].pc = "done"
  /\ client' =
       IF spinCall[p].result.state = "resolved"
       THEN [client EXCEPT !.issuedCode = spinCall[p].result.code,
                           !.spinsLeft = <<spinCall[p].result.remainingAfter>>,
                           !.savingSpin = FALSE,
                           !.awaiting = @ \ {p}]
       ELSE [client EXCEPT !.alerted = <<spinCall[p].result.error>>,
                           !.savingSpin = FALSE,
                           !.awaiting = @ \ {p}]
  /\ UNCHANGED <<now, store, spinCall, redeemCall, wheel, home, rateCall>>

\* ------------------------------------- getRedeemRateForMerchantLast7Days
\* the spin documents of a merchant whose dateKey is among dateKeys
IssuedQ(merchantId, dateKeys) ==
  {i \in DOMAIN spinDocs : /\ spinDocs[i].exists
                           /\ spinDocs[i].merchantId = merchantId
                           /\ spinDocs[i].dateKey \in dateKeys}

\* those of them whose status is redeemed
RedeemedQ(merchantId, dateKeys) ==
  {i \in IssuedQ(merchantId, dateKeys) : spinDocs[i].status = "redeemed"}

\* the call, up to its first await
GetRedeemRate(merchantId, dateKeys) ==
  /\ rateCall.pc = "idle"
  /\ rateCall' = [pc |-> "issued", merchantId |-> merchantId, dateKeys |-> dateKeys]
  /\ UNCHANGED <<now, store, spinCall, redeemCall, wheel, home, client>>

\* the count of the issued spins arrives: 0 is returned when there are none
RateCountIssued ==
  /\ rateCall.pc = "issued"
  /\ LET issued == Cardinality(IssuedQ(rateCall.merchantId, rateCall.dateKeys))
     IN  rateCall' =
           IF issued = 0
           THEN [pc |-> "done", merchantId |-> rateCall.merchantId,
                 dateKeys |-> rateCall.dateKeys, issued |-> issued,
                 rate |-> [num |-> 0, den |-> 1]]
           ELSE [pc |-> "redeemed", merchantId |-> rateCall.merchantId,
                 dateKeys |-> rateCall.dateKeys, issued |-> issued]
  /\ UNCHANGED <<now, store, spinCall, redeemCall, wheel, home, client>>

\* the count of the redeemed spins arrives: redeemed / issued is returned,
\* kept here as a fraction
RateCountRedeemed ==
  /\ rateCall.pc = "redeemed"
  /\ LET redeemed == Cardinality(RedeemedQ(rateCall.merchantId, rateCall.dateKeys))
     IN  rateCall' = [pc |-> "done", merchantId |-> rateCall.merchantId,
                      dateKeys |-> rateCall.dateKeys, issued |-> rateCall.issued,
                      rate |-> [num |-> redeemed, den |-> rateCall.issued]]
  /\ UNCHANGED <<now, store, spinCall, redeemCall, wheel, home, client>>

\* --------------------------------------------------------- specifications

\* Issuance: calls of createSpin by two users for two merchants (the first
\* call names them u1 and m1), with the dailyLimit omitted or given, on two
\* days, with storage faults.
NextIssue ==
  \/ \E p \in SpinCalls, uid \in Users, m \in Merchants, limitArg \in DailyLimitArgs :
       /\ p = 1 => uid = "u1" /\ m = "m1"
       /\ CreateSpin(p, uid, m, "10% off", limitArg, <<7, 20, 2, 26, 35, 33>>, p)
  \/ \E p \in SpinCalls : TxGet(p)
  \/ \E p \in SpinCalls : TxCommit(p)
  \/ \E p \in SpinCalls : TxFault(p)
  \/ Tick(IssueInstants)

Spec == Init /\ [][NextIssue]_vars

\* Redemption: spins issued with a random code, and concurrent calls of
\* redeemSpinByCode, up to and past the expiry.
NextRedeem ==
  \/ \E p \in IssuedCalls, frac \in RandomDraws :
       CreateSpin(p, "u1", "m1", "10% off", <<>>, frac, p)
  \/ \E p \in IssuedCalls : TxGet(p)
  \/ \E p \in IssuedCalls : TxCommit(p)
  \/ \E r \in RedeemCalls, code \in RedeemInputs : RedeemSpinByCode(r, code)
  \/ \E r \in RedeemCalls : RedeemQuery(r)
  \/ \E r \in RedeemCalls : RedeemUpdate(r)
  \/ Tick(RedeemInstants)

SpecRedeem == InitWith(IssuedCalls, RedeemCalls) /\ [][NextRedeem]_vars

\* Concurrent issuance: NumConcurrent calls by one user for one merchant on
\* one day, all with the dailyLimit of the first.  The calls being alike,
\* they are numbered in the order of their first read of the limit document.
NextConcurrent ==
  \/ \E p \in ConcurrentCalls, limitArg \in ConcurrentLimitArgs :
       /\ p > 1 => /\ spinCall[1].pc # "idle"
                   /\ DailyLimitOrDefault(limitArg) = spinCall[1].dailyLimit
       /\ CreateSpin(p, "u1", "m1", "10% off", limitArg, <<7, 20, 2, 26, 35, 33>>, p)
  \/ \E p \in ConcurrentCalls :
       /\ spinCall[p].pc = "get"
       /\ spinCall[p].attemptsRemaining = MaxAttempts - 1 =>
            \A q \in ConcurrentCalls : q < p =>
               spinCall[q].pc # "get" \/ spinCall[q].attemptsRemaining < MaxAttempts - 1
       /\ TxGet(p)
  \/ \E p \in ConcurrentCalls : TxCommit(p)

SpecConcurrent == InitWith(ConcurrentCalls, {}) /\ [][NextConcurrent]_vars

\* Consecutive issuance: one user spins for one merchant on one day, each
\* call made when the one before has returned, all with the same dailyLimit.
NextSequential ==
  \/ \E p \in SeqCalls, prize \in PrizeLabels, limitArg \in SeqLimitArgs, frac \in RandomDraws :
       /\ \A q \in SeqCalls : q < p => spinCall[q].pc = "done"
       /\ p > 1 => DailyLimitOrDefault(limitArg) = spinCall[1].dailyLimit
       /\ CreateSpin(p, "u1", "m1", prize, limitArg, frac, p)
  \/ \E p \in SeqCalls : TxGet(p)
  \/ \E p \in SeqCalls : TxCommit(p)

SpecSequential == InitWith(SeqCalls, {}) /\ [][NextSequential]_vars

\* Round trip: spins are issued one after the other with any prize and random
\* code, then their codes are redeemed, one call at a time.
NextRoundTrip ==
  \/ \E p \in SpinCalls, prize \in PrizeLabels, frac \in RandomDraws :
       /\ \A q \in SpinCalls : q < p => spinCall[q].pc = "done"
       /\ CreateSpin(p, "u1", "m1", prize, <<>>, frac, p)
  \/ \E p \in SpinCalls : TxGet(p)
  \/ \E p \in SpinCalls : TxCommit(p)
  \/ \E r \in RedeemCalls, code \in RedeemInputs :
       /\ \A p \in SpinCalls : spinCall[p].pc = "done"
       /\ \A q \in RedeemCalls : q < r => redeemCall[q].pc = "done"
       /\ RedeemSpinByCode(r, code)
  \/ \E r \in RedeemCalls : RedeemQuery(r)
  \/ \E r \in RedeemCalls : RedeemUpdate(r)

SpecRoundTrip == Init /\ [][NextRoundTrip]_vars

\* Normalization: a spin is issued with the code WD-7K2QZX, and
\* redeemSpinByCode is called, one call at a time, with strings that are
\* empty, unknown, or that code in some spelling, up to and past the expiry.
NextNormalize ==
  \/ \E p \in IssuedCalls :
       CreateSpin(p, "u1", "m1", "10% off", <<>>, <<7, 20, 2, 26, 35, 33>>, p)
  \/ \E p \in IssuedCalls : TxGet(p)
  \/ \E p \in IssuedCalls : TxCommit(p)
  \/ \E r \in RedeemCalls, code \in NormalizeInputs :
       /\ \A q \in RedeemCalls : q < r => redeemCall[q].pc = "done"
       /\ RedeemSpinByCode(r, code)
  \/ \E r \in RedeemCalls : RedeemQuery(r)
  \/ \E r \in RedeemCalls : RedeemUpdate(r)
  \/ Tick(RedeemInstants)

SpecNormalize == InitWith(IssuedCalls, RedeemCalls) /\ [][NextNormalize]_vars

\* Codes: spins are issued for any value of Math.random(), among them the
\* values whose base-36 expansion is short.
NextCode ==
  \/ \E p \in SpinCalls, frac \in CodeDraws :
       CreateSpin(p, "u1", "m1", "10% off", <<>>, frac, p)
  \/ \E p \in SpinCalls : TxGet(p)
  \/ \E p \in SpinCalls : TxCommit(p)

SpecCode == InitWith(SpinCalls, {}) /\ [][NextCode]_vars

\* Prize selection: the Home page of a merchant with any wheel array, and
\* the Wheel it shows.
InitWheel ==
  /\ InitStore({}, {})
  /\ \E items \in ItemLists :
       /\ wheel = MountedWheel(items)
       /\ home = MountedHome(items)
  /\ client = MountedClient("m1")

NextWheel ==
  \/ WheelSpin
  \/ WheelSpinResume
  \/ WheelOnSpinEnd
  \/ HomeOnSpin
  \/ HomeOnSpinResume
  \/ HomeButtonClick

SpecWheel == InitWheel /\ [][NextWheel]_vars

\* Issuance and redemption side by side: spins of two users for one
\* merchant, each call made when the one before has returned, while codes
\* are redeemed, up to and past the expiry.
NextFrame ==
  \/ \E p \in SpinCalls, uid \in Users :
       /\ p = 1 => uid = "u1"
       /\ \A q \in SpinCalls : q < p => spinCall[q].pc = "done"
       /\ CreateSpin(p, uid, "m1", "10% off", <<>>, <<7, 20, 2, 26, 35, 33>>, p)
  \/ \E p \in SpinCalls : TxGet(p)
  \/ \E p \in SpinCalls : TxCommit(p)
  \/ \E r \in RedeemCalls, code \in RedeemInputs : RedeemSpinByCode(r, code)
  \/ \E r \in RedeemCalls : RedeemQuery(r)
  \/ \E r \in RedeemCalls : RedeemUpdate(r)
  \/ Tick(RedeemInstants)

SpecFrame == Init /\ [][NextFrame]_vars

\* The client: prizes come from the wheel, each is saved with createSpin for
\* the merchant selected at that moment (every call draws a code of its
\* own), and the user may select another merchant at any time.
NextClient ==
  \/ \E p \in SpinCalls, label \in {wheelItems[1].label, wheelItems[4].label},
         frac \in RandomDraws :
       /\ \A q \in SpinCalls :
            spinCall[q].pc # "idle" => spinCall[q].code # generateCode(frac)
       /\ ClientOnResult(p, label, frac)
  \/ \E m \in Merchants : ClientSelectMerchant(m)
  \/ \E p \in SpinCalls : TxGet(p)
  \/ \E p \in SpinCalls : TxCommit(p)
  \/ \E p \in SpinCalls : TxFault(p)
  \/ \E p \in SpinCalls : ClientSpinSettled(p)

SpecClient == Init /\ [][NextClient]_vars

\* the dateKeys passed by the merchant dashboard: 7 consecutive days
DateKeyWindows == {0..6, 2..MaxDay}

\* The merchant dashboard: the redeem rate of a merchant is computed while
\* spins are issued for it, each with a code of its own, and redeemed.
NextRate ==
  \/ \E p \in SpinCalls, frac \in RandomDraws :
       /\ \A q \in SpinCalls :
            spinCall[q].pc # "idle" => spinCall[q].code # generateCode(frac)
       /\ CreateSpin(p, "u1", "m1", "10% off", <<>>, frac, p)
  \/ \E p \in SpinCalls : TxGet(p)
  \/ \E p \in SpinCalls : TxCommit(p)
  \/ \E r \in RedeemCalls, code \in RedeemInputs : RedeemSpinByCode(r, code)
  \/ \E r \in RedeemCalls : RedeemQuery(r)
  \/ \E r \in RedeemCalls : RedeemUpdate(r)
  \/ \E m \in Merchants, keys \in DateKeyWindows : GetRedeemRate(m, keys)
  \/ RateCountIssued
  \/ RateCountRedeemed

SpecRate == Init /\ [][NextRate]_vars

\* ------------------------------------------------------------------ claims

Resolved(p) == spinCall[p].pc = "done" /\ spinCall[p].result.state = "resolved"

Rejected(p) == spinCall[p].pc = "done" /\ spinCall[p].result.state = "rejected"

QuotaExceeded(p) == spinCall[p].pc = "done" /\ spinCall[p].result = QuotaError

RedeemDone(r) == redeemCall[r].pc = "done"

RedeemOk(r) == RedeemDone(r) /\ redeemCall[r].result.ok

RedeemRefused(r, reason) == RedeemDone(r) /\ redeemCall[r].result = Refused(reason)

\* the spin documents of a merchant and day
SpinsOfMerchantDay(m, d) ==
  {i \in DOMAIN spinDocs :
     spinDocs[i].exists /\ spinDocs[i].merchantId = m /\ spinDocs[i].dateKey = d}

\* the spin documents of a user, merchant and day
SpinsOfKey(uid, m, d) ==
  {i \in SpinsOfMerchantDay(m, d) : spinDocs[i].uid = uid}

\* C1: when N concurrent createSpin calls of one user for one merchant and
\* day, all with dailyLimit L, against a fresh key have returned, exactly
\* min(N, L) of them have succeeded, the others have failed with the
\* quota-exceeded error, and the merchant's daily spinsCount is the number
\* of successes.
C1_ConcurrentQuota ==
  (\A p \in DOMAIN spinCall : spinCall[p].pc = "done") =>
    LET N == Cardinality(DOMAIN spinCall)
        L == spinCall[1].dailyLimit
        ok == {p \in DOMAIN spinCall : Resolved(p)}
    IN  /\ Cardinality(ok) = Min(N, L)
        /\ \A p \in DOMAIN spinCall \ ok : QuotaExceeded(p)
        /\ merchantStats[merchantDailyRef(spinCall[1])] = Cardinality(ok)

\* C2: of two redeemSpinByCode calls that matched the same spin document,
\* the code still being unexpired, only one returns ok: when one has
\* returned ok the other has returned already_redeemed.
C2_OneRedemption ==
  \A r1, r2 \in DOMAIN redeemCall :
    ( /\ r1 # r2
      /\ RedeemOk(r1)
      /\ RedeemDone(r2)
      /\ redeemCall[r2].docId = redeemCall[r1].docId
      /\ now <= spinDocs[redeemCall[r1].docId].expiresAt )
    => RedeemRefused(r2, "already_redeemed")

\* C3: of consecutive createSpin calls on a fresh key with dailyLimit L >= 1,
\* the k-th, k <= L, succeeds with remainingAfter = L - k, and the (L+1)-th
\* fails with the quota-exceeded error.
C3_ConsecutiveSpins ==
  \A p \in DOMAIN spinCall :
    spinCall[p].pc = "done" =>
      LET L == spinCall[p].dailyLimit IN
      /\ p <= L => Resolved(p) /\ spinCall[p].result.remainingAfter = L - p
      /\ p = L + 1 => QuotaExceeded(p)

\* the default limit: three spins succeeded with 2, 1, 0 left, the fourth
\* was refused
C3_Witness ==
  /\ Cardinality(DOMAIN spinCall) > DefaultDailyLimit
  /\ spinCall[1].pc = "done" /\ spinCall[1].dailyLimit = DefaultDailyLimit
  /\ \A p \in 1..DefaultDailyLimit :
       Resolved(p) /\ spinCall[p].result.remainingAfter = DefaultDailyLimit - p
  /\ QuotaExceeded(DefaultDailyLimit + 1)

C5_MerchantAggregate ==
  \A m \in Merchants, d \in DateKeys :
    merchantStats[<<m, d>>] = Cardinality(SpinsOfMerchantDay(m, d))

\* two users have spun for the same merchant on the same day
C5_Witness ==
  \E m \in Merchants, d \in DateKeys :
    /\ merchantStats[<<m, d>>] = 2
    /\ \E i, j \in SpinsOfMerchantDay(m, d) : spinDocs[i].uid # spinDocs[j].uid

\* the four writes of the issuance of call p, and no other change of the store
IssuanceEffects(p) ==
  LET c == spinCall[p] IN
  /\ limitDocs'[limitRef(c)].exists
  /\ limitDocs'[limitRef(c)].remaining
       = RemainingOf(limitDocs[limitRef(c)], c.dailyLimit) - 1
  /\ \A k \in DOMAIN limitDocs : k # limitRef(c) => limitDocs'[k] = limitDocs[k]
  /\ ~spinDocs[c.spinId].exists
  /\ spinDocs'[c.spinId].exists
  /\ \A i \in DOMAIN spinDocs : i # c.spinId => spinDocs'[i] = spinDocs[i]
  /\ merchantStats' =
       [merchantStats EXCEPT ![merchantDailyRef(c)] = merchantStats[merchantDailyRef(c)] + 1]
  /\ userMerchantStats' =
       [userMerchantStats EXCEPT ![userMerchantDailyRef(c)] =
          userMerchantStats[userMerchantDailyRef(c)] + 1]

C8_RefusalWritesNothing ==
  [][\A p \in DOMAIN spinCall :
       ~QuotaExceeded(p) /\ QuotaExceeded(p)' => store' = store]_vars

\* refused with the record absent and a dailyLimit <= 0: no record was created
C8_Witness ==
  \E p \in DOMAIN spinCall :
    /\ QuotaExceeded(p)
    /\ spinCall[p].dailyLimit <= 0
    /\ ~limitDocs[limitRef(spinCall[p])].exists

\* C6: round trip: the first redeemSpinByCode of a code returned by a
\* successful createSpin returns ok with the prizeLabel and merchantId given
\* to that createSpin, and every later one returns already_redeemed.
C6_RoundTrip ==
  \A p \in DOMAIN spinCall : \A r \in DOMAIN redeemCall :
    (Resolved(p) /\ RedeemDone(r) /\ redeemCall[r].cleaned = spinCall[p].result.code) =>
      IF \A q \in DOMAIN redeemCall : q < r => redeemCall[q].cleaned # redeemCall[r].cleaned
      THEN /\ RedeemOk(r)
           /\ redeemCall[r].result.prizeLabel = spinCall[p].prizeLabel
           /\ redeemCall[r].result.merchantId = spinCall[p].merchantId
      ELSE RedeemRefused(r, "already_redeemed")

\* C9: a redeemSpinByCode that finds its code issued and past its expiry
\* returns expired and leaves every spin document as it was (status issued,
\* no redemption timestamp).
C9_ExpiredRefused ==
  [][\A r \in DOMAIN redeemCall :
       ( /\ redeemCall[r].pc = "query"
         /\ redeemCall'[r].pc # "query"
         /\ Matching(redeemCall[r].cleaned) # {}
         /\ spinDocs[FirstMatch(redeemCall[r].cleaned)].status = "issued"
         /\ now > spinDocs[FirstMatch(redeemCall[r].cleaned)].expiresAt )
       => RedeemRefused(r, "expired")' /\ spinDocs' = spinDocs]_vars

\* a code refused as expired 8 days after its issuance, and still issued
C9_Witness ==
  \E r \in DOMAIN redeemCall :
    /\ RedeemRefused(r, "expired")
    /\ spinDocs[redeemCall[r].docId].status = "issued"
    /\ spinDocs[redeemCall[r].docId].redeemedAt = <<>>
    /\ now >= spinDocs[redeemCall[r].docId].createdAt + 8 * DayMs

C11_UniqueCodes ==
  \A i \in DOMAIN spinDocs : \A j \in DOMAIN spinDocs :
    (i # j /\ spinDocs[i].exists /\ spinDocs[j].exists) =>
       spinDocs[i].code # spinDocs[j].code

\* C12: a redeemSpinByCode whose code, trimmed and put in upper case, is the
\* code of no spin document (the empty string included) returns not_found,
\* and its lookup changes no stored document.
C12_NotFound ==
  [][\A r \in DOMAIN redeemCall :
       ( /\ redeemCall[r].pc = "query"
         /\ redeemCall'[r].pc # "query"
         /\ \A i \in DOMAIN spinDocs :
              spinDocs[i].exists =>
                spinDocs[i].code # ToUpperCase(Trim(redeemCall[r].code)) )
       => RedeemRefused(r, "not_found")' /\ store' = store]_vars

\* white space only and a code never issued, both refused as not_found
\* while an issued spin is stored
C12_Witness ==
  /\ \E i \in DOMAIN spinDocs : spinDocs[i].exists /\ spinDocs[i].status = "issued"
  /\ \E r \in DOMAIN redeemCall :
       /\ RedeemRefused(r, "not_found")
       /\ redeemCall[r].code # <<>>
       /\ ToUpperCase(Trim(redeemCall[r].code)) = <<>>
  /\ \E r \in DOMAIN redeemCall :
       /\ RedeemRefused(r, "not_found")
       /\ Len(ToUpperCase(Trim(redeemCall[r].code))) = 9

\* C13: redeemSpinByCode(s) does what redeemSpinByCode(uppercase(trim(s)))
\* does in the same state: its lookup writes nothing and ends as the lookup
\* of the normalized string would (same refusal, or same matched document),
\* and its update changes only that document, whose code is the normalized
\* string.
C13_Normalization ==
  [][\A r \in DOMAIN redeemCall :
       LET k == Cleaned(ToUpperCase(Trim(redeemCall[r].code)))
       IN  /\ (redeemCall[r].pc = "query" /\ redeemCall'[r].pc # "query") =>
                /\ store' = store
                /\ IF Matching(k) = {}
                   THEN RedeemRefused(r, "not_found")'
                   ELSE /\ redeemCall'[r].docId = FirstMatch(k)
                        /\ IF spinDocs[FirstMatch(k)].status = "redeemed"
                           THEN RedeemRefused(r, "already_redeemed")'
                           ELSE IF IsExpired(spinDocs[FirstMatch(k)].expiresAt, now)
                           THEN RedeemRefused(r, "expired")'
                           ELSE redeemCall'[r].pc = "update"
           /\ (redeemCall[r].pc = "update" /\ redeemCall'[r].pc # "update") =>
                /\ RedeemOk(r)'
                /\ spinDocs[redeemCall[r].docId].code = ToUpperCase(Trim(redeemCall[r].code))
                /\ spinDocs'[redeemCall[r].docId].status = "redeemed"
                /\ \A i \in DOMAIN spinDocs :
                     i # redeemCall[r].docId => spinDocs'[i] = spinDocs[i]]_vars

\* the code typed in lower case with blanks around it is redeemed, and the
\* same code typed as issued is then refused on the same document
C13_Witness ==
  \E r1 \in DOMAIN redeemCall : \E r2 \in DOMAIN redeemCall :
    /\ RedeemOk(r1)
    /\ redeemCall[r1].code # ToUpperCase(Trim(redeemCall[r1].code))
    /\ RedeemRefused(r2, "already_redeemed")
    /\ redeemCall[r2].code = ToUpperCase(Trim(redeemCall[r1].code))
    /\ redeemCall[r2].docId = redeemCall[r1].docId

\* C14: a redeemSpinByCode that finds its code on an issued spin document
\* is refused as expired exactly when the time of its check is strictly
\* greater than the stored expiry; at a time equal to the expiry or earlier
\* it goes on to its update and returns ok.
C14_ExpiryBoundary ==
  [][\A r \in DOMAIN redeemCall :
       LET k == redeemCall[r].cleaned
       IN  /\ ( /\ redeemCall[r].pc = "query"
                /\ redeemCall'[r].pc # "query"
                /\ Matching(k) # {}
                /\ spinDocs[FirstMatch(k)].status = "issued" )
              => /\ RedeemRefused(r, "expired")' <=> now > spinDocs[FirstMatch(k)].expiresAt
                 /\ redeemCall'[r].pc = "update" <=> now <= spinDocs[FirstMatch(k)].expiresAt
           /\ (redeemCall[r].pc = "update" /\ redeemCall'[r].pc # "update") =>
                /\ RedeemOk(r)'
                /\ redeemCall[r].checkedAt <= redeemCall[r].data.expiresAt
                /\ spinDocs'[redeemCall[r].docId].status = "redeemed"]_vars

\* one code redeemed by a call whose check was made at the very instant of
\* the expiry, another call on it refused as expired after that instant
\* (the two lookups both found the code issued)
C14_Witness ==
  \E r1 \in DOMAIN redeemCall : \E r2 \in DOMAIN redeemCall :
    /\ RedeemOk(r1)
    /\ redeemCall[r1].checkedAt = redeemCall[r1].data.expiresAt
    /\ spinDocs[redeemCall[r1].docId].status = "redeemed"
    /\ RedeemRefused(r2, "expired")
    /\ redeemCall[r2].checkedAt > redeemCall[r1].data.expiresAt

\* C15: for every user, merchant and day, the daily spinsCount of the
\* user+merchant aggregate is the number of spin documents with that uid,
\* merchantId and dateKey.
C15_UserMerchantAggregate ==
  \A uid \in Users, m \in Merchants, d \in DateKeys :
    userMerchantStats[<<UserMerchantId(uid, m), d>>] = Cardinality(SpinsOfKey(uid, m, d))

\* one user has spun twice for one merchant on one day
C15_Witness ==
  \E uid \in Users, m \in Merchants, d \in DateKeys :
    /\ Cardinality(SpinsOfKey(uid, m, d)) = 2
    /\ userMerchantStats[<<UserMerchantId(uid, m), d>>] = 2
    /\ merchantStats[<<m, d>>] = 2

\* C16: the code of every call of createSpin, and so of every spin document,
\* is WD- followed by exactly 6 characters, each of A-Z or 0-9.
C16_CodeFormat ==
  \A p \in DOMAIN spinCall :
    spinCall[p].pc # "idle" =>
      LET code == spinCall[p].code
      IN  /\ Len(code) = 9
          /\ SubSeq(code, 1, 3) = <<"W", "D", "-">>
          /\ \A i \in 4..Len(code) : \E k \in 1..36 : code[i] = UpperDigits[k]
          /\ spinDocs[spinCall[p].spinId].exists => spinDocs[spinCall[p].spinId].code = code

\* the (user, merchant, day) of a call of createSpin
IssuanceKey(c) == <<c.uid, c.merchantId, c.dateKey>>

C18_FirstExceeding ==
  ( /\ wheel.pendingWinnerIdx # <<>>
    /\ \A i \in DOMAIN wheel.items : wheel.items[i].weight >= 0
    /\ totalWeight(wheel.items) > 0 )
  => LET r == wheel.draw[1]
         k == wheel.pendingWinnerIdx[1] + 1
     IN  /\ 0 <= r /\ r < totalWeight(wheel.items)
         /\ k \in DOMAIN wheel.items
         /\ totalWeight(SubSeq(wheel.items, 1, k)) > r
         /\ \A j \in 1..(k - 1) : totalWeight(SubSeq(wheel.items, 1, j)) <= r
         /\ wheel.items[k].weight > 0
         /\ wheel.pendingWinner = <<wheel.items[k].label>>

\* C19: for an empty list or a total weight <= 0 the prize selector fails
\* with an error reported to its caller, selects no prize, and nothing is
\* issued: a call of the wheel's spin ends in an error and leaves no
\* winner, the Home page shows nothing but its error message, and no spin
\* document is written.
C19_InvalidInput ==
  /\ (Len(wheel.items) = 0 \/ totalWeight(wheel.items) <= 0) =>
       /\ wheel.spinReturn \in {"none", "error"}
       /\ wheel.pendingWinner = <<>>
       /\ wheel.winnerText = ""
  /\ (Len(home.wheel) = 0 \/ totalWeight(home.wheel) <= 0) =>
       home.result \in {"", "No wheel items found for this merchant yet."}
  /\ (Len(wheel.items) = 0 \/ totalWeight(wheel.items) <= 0) =>
       \A i \in DOMAIN spinDocs : ~spinDocs[i].exists

\* C20: a step of redeemSpinByCode changes no limit document and no
\* aggregate, and at most the status and redeemedAt of the one spin document
\* it matched; a step of createSpin changes no spin document that exists
\* and no limit document but that of its own (user, merchant, day).
C20_Frame ==
  [][/\ \A r \in DOMAIN redeemCall :
          redeemCall'[r] # redeemCall[r] =>
            /\ limitDocs' = limitDocs
            /\ merchantStats' = merchantStats
            /\ userMerchantStats' = userMerchantStats
            /\ \A i \in DOMAIN spinDocs :
                 spinDocs'[i] # spinDocs[i] =>
                   /\ i = redeemCall'[r].docId
                   /\ spinDocs[i].exists
                   /\ spinDocs[i].code = ToUpperCase(Trim(redeemCall'[r].code))
                   /\ spinDocs'[i] = [spinDocs[i] EXCEPT
                                        !.status = spinDocs'[i].status,
                                        !.redeemedAt = spinDocs'[i].redeemedAt]
     /\ \A p \in DOMAIN spinCall :
          spinCall'[p] # spinCall[p] =>
            /\ \A i \in DOMAIN spinDocs :
                 spinDocs[i].exists => spinDocs'[i] = spinDocs[i]
            /\ \A k \in DOMAIN limitDocs :
                 k # IssuanceKey(spinCall'[p]) => limitDocs'[k] = limitDocs[k]]_vars

\* a spin was redeemed, a second was then issued to another user, and a
\* redemption was refused: the first is as redeemed, the second is issued,
\* and each user's limit document has counted one spin
C20_Witness ==
  \E i \in DOMAIN spinDocs : \E j \in DOMAIN spinDocs :
    /\ spinDocs[i].exists /\ spinDocs[j].exists
    /\ spinDocs[i].status = "redeemed"
    /\ spinDocs[j].status = "issued"
    /\ spinDocs[i].uid # spinDocs[j].uid
    /\ spinDocs[i].redeemedAt # <<>>
    /\ spinDocs[i].redeemedAt[1] < spinDocs[j].createdAt
    /\ \E r \in DOMAIN redeemCall : RedeemOk(r) /\ redeemCall[r].docId = i
    /\ \E r \in DOMAIN redeemCall : RedeemDone(r) /\ ~redeemCall[r].result.ok
    /\ \A u \in {spinDocs[i].uid, spinDocs[j].uid} :
         \E k \in DOMAIN limitDocs :
           /\ k[1] = u
           /\ limitDocs[k].exists
           /\ limitDocs[k].remaining = DefaultDailyLimit - 1

\* C21: every spin document is created with status issued and an expiresAt
\* equal to its createdAt plus exactly 7 days.
C21_ExpiryFromCreation ==
  \A i \in DOMAIN spinDocs :
    spinDocs[i].exists =>
      /\ spinDocs[i].redeemedAt = <<>> => spinDocs[i].status = "issued"
      /\ spinDocs[i].expiresAt = spinDocs[i].createdAt + ExpiryDays * DayMs

\* C22: a redeemSpinByCode that finds its code on a spin document already
\* redeemed returns already_redeemed, also when the expiry of that document
\* has passed.
C22_RedeemedBeforeExpired ==
  [][\A r \in DOMAIN redeemCall :
       ( /\ redeemCall[r].pc = "query"
         /\ redeemCall'[r].pc # "query"
         /\ Matching(ToUpperCase(Trim(redeemCall[r].code))) # {}
         /\ spinDocs[FirstMatch(ToUpperCase(Trim(redeemCall[r].code)))].status = "redeemed" )
       => /\ RedeemRefused(r, "already_redeemed")'
          /\ store' = store]_vars

\* a code redeemed by an update applied after its expiry, and then refused
\* as already redeemed: the refusing lookup was made past the expiry
C22_Witness ==
  \E r \in DOMAIN redeemCall :
    /\ RedeemRefused(r, "already_redeemed")
    /\ spinDocs[redeemCall[r].docId].status = "redeemed"
    /\ spinDocs[redeemCall[r].docId].redeemedAt[1] > spinDocs[redeemCall[r].docId].expiresAt

\* C23: no step removes or resets a document: a spin document that exists
\* stays, a limit document that exists stays and its remaining does not
\* increase, and no spinsCount decreases.
C23_Monotonic ==
  [][/\ \A i \in DOMAIN spinDocs : spinDocs[i].exists => spinDocs'[i].exists
     /\ \A k \in DOMAIN limitDocs :
          limitDocs[k].exists =>
            /\ limitDocs'[k].exists
            /\ limitDocs'[k].remaining <= limitDocs[k].remaining
     /\ \A k \in DOMAIN merchantStats : merchantStats'[k] >= merchantStats[k]
     /\ \A k \in DOMAIN userMerchantStats :
          userMerchantStats'[k] >= userMerchantStats[k]]_vars

\* a user has spun twice on one day and one of the two spins is redeemed
C23_Witness ==
  \E k \in DOMAIN limitDocs :
    /\ limitDocs[k].exists
    /\ limitDocs[k].remaining = DefaultDailyLimit - 2
    /\ merchantStats[<<k[2], k[3]>>] = 2
    /\ \E i \in DOMAIN spinDocs : spinDocs[i].exists /\ spinDocs[i].status = "redeemed"
    /\ \A i \in DOMAIN spinDocs : spinDocs[i].exists

\* the calls of createSpin on key k that have succeeded
ResolvedOn(k) ==
  {p \in DOMAIN spinCall : Resolved(p) /\ IssuanceKey(spinCall[p]) = k}

\* the dailyLimit the limit document of key k was created with: the call
\* that created it returned remainingAfter = dailyLimit - 1, the highest
\* value returned on the key
InitialLimit(k) ==
  1 + spinCall[CHOOSE p \in ResolvedOn(k) :
                 \A q \in ResolvedOn(k) :
                   spinCall[q].result.remainingAfter <= spinCall[p].result.remainingAfter
              ].result.remainingAfter

\* C24: for every (user, merchant, day) that has a limit document, remaining
\* plus the number of spin documents of that user, merchant and day is the
\* dailyLimit the document was created with.
C24_QuotaConservation ==
  \A k \in DOMAIN limitDocs :
    limitDocs[k].exists =>
      /\ ResolvedOn(k) # {}
      /\ \E p \in ResolvedOn(k) : InitialLimit(k) = spinCall[p].dailyLimit
      /\ limitDocs[k].remaining + Cardinality(SpinsOfKey(k[1], k[2], k[3])) = InitialLimit(k)

\* two spins on a key created with the default dailyLimit 3: remaining 1
C24_Witness ==
  \E k \in DOMAIN limitDocs :
    /\ limitDocs[k].exists
    /\ limitDocs[k].remaining = 1
    /\ Cardinality(SpinsOfKey(k[1], k[2], k[3])) = 2
    /\ InitialLimit(k) = DefaultDailyLimit

\* C25: there are as many spin documents as calls of createSpin that have
\* succeeded, also while a body is being run again; the step in which a call
\* succeeds creates one spin document (with the id, code and expiry the call
\* generated before its transaction), takes 1 from the remaining of its key
\* and adds 1 to each of the two aggregates; the step in which a call fails
\* writes nothing.
C25_ExactlyOnce ==
  /\ [](Cardinality({i \in DOMAIN spinDocs : spinDocs[i].exists})
          = Cardinality({p \in DOMAIN spinCall : Resolved(p)}))
  /\ [][\A p \in DOMAIN spinCall :
          /\ (~Resolved(p) /\ Resolved(p)') =>
               LET c == spinCall[p]
                   k == IssuanceKey(c)
               IN  /\ {i \in DOMAIN spinDocs : spinDocs'[i] # spinDocs[i]} = {c.spinId}
                   /\ ~spinDocs[c.spinId].exists
                   /\ spinDocs'[c.spinId].code = c.code
                   /\ spinDocs'[c.spinId].expiresAt = c.expiresAt
                   /\ limitDocs'[k].remaining + 1 =
                        (IF limitDocs[k].exists THEN limitDocs[k].remaining ELSE c.dailyLimit)
                   /\ merchantStats'[<<c.merchantId, c.dateKey>>]
                        = merchantStats[<<c.merchantId, c.dateKey>>] + 1
                   /\ userMerchantStats'[<<UserMerchantId(c.uid, c.merchantId), c.dateKey>>]
                        = userMerchantStats[<<UserMerchantId(c.uid, c.merchantId), c.dateKey>>] + 1
                   /\ Cardinality({x \in DOMAIN merchantStats :
                                     merchantStats'[x] # merchantStats[x]}) = 1
                   /\ Cardinality({x \in DOMAIN userMerchantStats :
                                     userMerchantStats'[x] # userMerchantStats[x]}) = 1
          /\ (~Rejected(p) /\ Rejected(p)') => store' = store
          /\ (spinCall[p].pc = "commit" /\ spinCall'[p].pc = "get") => store' = store]_vars

\* a call is running its body for the second time after the commit of
\* another call on its key: one spin document, one spin counted
C25_Witness ==
  \E p \in DOMAIN spinCall : \E q \in DOMAIN spinCall :
    /\ spinCall[p].pc = "commit"
    /\ spinCall[p].attemptsRemaining = MaxAttempts - 2
    /\ Resolved(q)
    /\ IssuanceKey(spinCall[q]) = IssuanceKey(spinCall[p])
    /\ spinCall[p].limitSnap = limitDocs[IssuanceKey(spinCall[p])]
    /\ ~spinDocs[spinCall[p].spinId].exists
    /\ merchantStats[<<spinCall[p].merchantId, spinCall[p].dateKey>>] = 1

\* C26: once the limit document of a key exists, the dailyLimit of a call
\* has no effect: its read ends in the quota error exactly when the stored
\* remaining is <= 0, and its success leaves the stored remaining less 1
\* (which it returns); so the successes on a key never exceed the dailyLimit
\* of the call that created the document.
C26_LimitOnlyAtCreation ==
  /\ [](\A k \in DOMAIN limitDocs :
          limitDocs[k].exists => Cardinality(ResolvedOn(k)) <= InitialLimit(k))
  /\ [][\A p \in DOMAIN spinCall :
          ( /\ spinCall[p].pc \in {"get", "commit"}
            /\ limitDocs[IssuanceKey(spinCall[p])].exists
            /\ spinCall'[p] # spinCall[p]
            /\ spinCall'[p].result # [state |-> "rejected", error |-> "permission-denied"] )
          => LET stored == limitDocs[IssuanceKey(spinCall[p])].remaining
             IN  /\ spinCall[p].pc = "get" => (QuotaExceeded(p)' <=> stored <= 0)
                 /\ Resolved(p)' =>
                      /\ limitDocs'[IssuanceKey(spinCall[p])].remaining = stored - 1
                      /\ spinCall'[p].result.remainingAfter = stored - 1]_vars

\* a key created by a call with dailyLimit 1, on which a call with the
\* default dailyLimit 3 was refused
C26_Witness ==
  \E p \in DOMAIN spinCall : \E q \in DOMAIN spinCall :
    /\ Resolved(p)
    /\ spinCall[p].dailyLimit = 1
    /\ QuotaExceeded(q)
    /\ spinCall[q].dailyLimit = DefaultDailyLimit
    /\ IssuanceKey(spinCall[q]) = IssuanceKey(spinCall[p])
    /\ limitDocs[IssuanceKey(spinCall[p])].remaining = 0

\* the merchant whose name the code box shows
ShownMerchant == client.selectedMerchantId

\* the createSpin calls that issued the code the code box shows
IssuersOfShownCode ==
  {p \in DOMAIN spinCall : Resolved(p) /\ <<spinCall[p].result.code>> = <<client.issuedCode>>}

\* C27: in WheelDealsClient, whenever a redeem code is displayed, the
\* merchant name shown next to it is the merchant the code was issued for,
\* also when the user selects another merchant while createSpin is pending;
\* and when the failure of a createSpin call is reported, no code and no
\* spins-left value is displayed.
C27_CodeOfShownMerchant ==
  /\ [](client.issuedCode # <<>> =>
          \A p \in IssuersOfShownCode : spinCall[p].merchantId = ShownMerchant)
  /\ [][\A p \in DOMAIN spinCall :
          (p \in client.awaiting /\ p \notin client'.awaiting /\ Rejected(p))
            => (client'.issuedCode = <<>> /\ client'.spinsLeft = <<>>)]_vars

\* C28: a call of spin made while a spin is in progress, also one made
\* while the first call still awaits unlockAudio, picks no new winner and
\* changes no state of the wheel; and the end of a spin hands onResult the
\* label of the winner picked when that spin started.
C28_OneWinnerPerSpin ==
  /\ [][(wheel.spinning /\ wheel'.spinning) =>
          /\ wheel'.pendingWinner = wheel.pendingWinner
          /\ wheel'.pendingWinnerIdx = wheel.pendingWinnerIdx
          /\ wheel'.winnerText = wheel.winnerText
          /\ wheel'.winnerIdx = wheel.winnerIdx]_vars
  /\ [][(wheel.spinning /\ ~wheel'.spinning) =>
          /\ wheel.pendingWinner # <<>>
          /\ home'.result = wheel.pendingWinner[1]]_vars

\* the rate a finished call has returned
RateReturned == rateCall.pc = "done"

\* C29: getRedeemRateForMerchantLast7Days returns 0 when it counts no
\* issued spin, and otherwise redeemed / issued with redeemed <= issued, a
\* rate between 0 and 1, also when spins are issued or redeemed between its
\* two count queries.
C29_RateInUnitInterval ==
  RateReturned =>
    /\ rateCall.issued = 0 => rateCall.rate.num = 0
    /\ 0 <= rateCall.rate.num
    /\ rateCall.rate.num <= rateCall.rate.den

\* C30: for a list of items with non-negative integer weights and a total
\* weight > 0, and a draw r in [0, total), pickWeighted of the Home page
\* picks the item at the index picked by pickWeightedIndex of Wheel, also
\* when r is a cumulative sum of weights, or 0 before an item of weight 0.
C30_PickersAgree ==
  ( /\ wheel.pendingWinnerIdx # <<>>
    /\ \A i \in DOMAIN wheel.items : wheel.items[i].weight >= 0
    /\ totalWeight(wheel.items) > 0 )
  => pickWeighted(wheel.items, wheel.draw[1]) =
       wheel.items[wheel.pendingWinnerIdx[1] + 1]

====
